---- MODULE Spec2Model ----
(***************************************************************************)
(* Subdomain monitor (subdomain2.py, subdomain_monitor.py).                *)
(*                                                                         *)
(* A scheduler thread (SubdomainMonitor.monitor) takes a snapshot of the   *)
(* domain list, starts one worker thread per entry (monitor_domain),       *)
(* joins them and sleeps.  A worker fetches the hostnames of its domain    *)
(* from crt.sh, reads the known ones from the SQLite table `subdomains`,   *)
(* stores the new ones and posts them to Telegram and Discord.  Telegram   *)
(* command handlers change the domain list and the interval.               *)
(*                                                                         *)
(* Text is modelled as a sequence of one-character strings, so that        *)
(* strip, lower, replace, `in` and endswith are computed as Python does.   *)
(* Timestamps are naturals: 0 is the empty string '', which Python and     *)
(* SQLite order before every date; NULL is -1, which SQLite orders first.  *)
(***************************************************************************)
EXTENDS Integers, Sequences, FiniteSets, Bags, TLC

(***************************************************************************)
(* Bounds of the model.                                                    *)
(***************************************************************************)
\* ticks of the scheduler loop that are explored
MaxTicks == 2
\* largest interval (seconds) a configuration or /interval command sets
MaxInterval == 1
\* chat commands that are explored
MaxCmds == 1
\* longest domain list /add extends
MaxDomains == 2
\* pieces a raw certificate name is built from (specification NormSpec)
MaxPieces == 4

(***************************************************************************)
(* Python str operations on sequences of characters.                       *)
(***************************************************************************)
\* str.lower() on one character
LowerChar(c) ==
    CASE c = "A" -> "a" [] c = "B" -> "b" [] c = "C" -> "c"
      [] c = "X" -> "x" [] c = "Y" -> "y" [] OTHER -> c

\* str.lower()
lower(s) == [i \in 1..Len(s) |-> LowerChar(s[i])]

\* the characters str.strip() removes
Whitespace == {" ", "\t"}

RECURSIVE lstrip(_)
lstrip(s) == IF s # <<>> /\ Head(s) \in Whitespace THEN lstrip(Tail(s)) ELSE s

RECURSIVE rstrip(_)
rstrip(s) ==
    IF s # <<>> /\ s[Len(s)] \in Whitespace
    THEN rstrip(SubSeq(s, 1, Len(s) - 1)) ELSE s

\* str.strip()
strip(s) == rstrip(lstrip(s))

\* s.startswith(p)
startswith(s, p) == Len(p) <= Len(s) /\ SubSeq(s, 1, Len(p)) = p

\* s.endswith(p)
endswith(s, p) ==
    Len(p) <= Len(s) /\ SubSeq(s, Len(s) - Len(p) + 1, Len(s)) = p

\* `p in s` for strings: p occurs in s as a substring
contains(s, p) ==
    \E i \in 0..(Len(s) - Len(p)) : SubSeq(s, i + 1, i + Len(p)) = p

\* s.replace(old, new): every non-overlapping occurrence, left to right
RECURSIVE replace(_, _, _)
replace(s, old, new) ==
    IF s = <<>> THEN <<>>
    ELSE IF startswith(s, old)
         THEN new \o replace(SubSeq(s, Len(old) + 1, Len(s)), old, new)
         ELSE <<Head(s)>> \o replace(Tail(s), old, new)

\* s.split(sep) for a one-character separator
RECURSIVE split(_, _)
split(s, sep) ==
    IF \A i \in 1..Len(s) : s[i] # sep THEN <<s>>
    ELSE LET k == CHOOSE i \in 1..Len(s) :
                      s[i] = sep /\ \A j \in 1..(i - 1) : s[j] # sep
         IN  <<SubSeq(s, 1, k - 1)>> \o split(SubSeq(s, k + 1, Len(s)), sep)

\* the text '*.' and the text '.' + domain
Wildcard == <<"*", ".">>
DotDomain(domain) == <<".">> \o domain

(***************************************************************************)
(* get_subdomains_from_crtsh: the loop over the entries of the response.   *)
(* A dict is a function from its keys to its values.                       *)
(***************************************************************************)
EmptyDict == <<>>

\* d[k] = v
DictSet(d, k, v) == [x \in (DOMAIN d) \cup {k} |-> IF x = k THEN v ELSE d[x]]

\* entry.get('entry_timestamp') or entry.get('not_before') or ''
EntryTime(entry) ==
    IF entry.entry_timestamp # 0 THEN entry.entry_timestamp
    ELSE IF entry.not_before # 0 THEN entry.not_before ELSE 0

\* the name kept for one line of name_value, or <<>> when the line is dropped
NormalizeName(domain, line) ==
    LET stripped == lower(strip(line))
    IN  IF stripped # <<>> /\ contains(stripped, domain)
        THEN LET cleaned == replace(stripped, Wildcard, <<>>)
             IN  IF endswith(cleaned, DotDomain(domain)) THEN cleaned ELSE <<>>
        ELSE <<>>

\* one line of name_value: the body of the inner for loop
AddLine(domain, subdomains, entry_time, line) ==
    LET subdomain == NormalizeName(domain, line)
    IN  IF subdomain = <<>> THEN subdomains
        ELSE IF subdomain \notin DOMAIN subdomains
                \/ (entry_time # 0 /\ entry_time < subdomains[subdomain])
             THEN DictSet(subdomains, subdomain, entry_time)
             ELSE subdomains

RECURSIVE AddLines(_, _, _, _)
AddLines(domain, subdomains, entry_time, lines) ==
    IF lines = <<>> THEN subdomains
    ELSE AddLines(domain, AddLine(domain, subdomains, entry_time, Head(lines)),
                  entry_time, Tail(lines))

\* one entry of the response: the body of the outer for loop
AddEntry(domain, subdomains, entry) ==
    IF entry.name_value # <<>>
    THEN AddLines(domain, subdomains, EntryTime(entry),
                  split(entry.name_value, "\n"))
    ELSE subdomains

RECURSIVE ParseEntries(_, _, _)
ParseEntries(domain, subdomains, data) ==
    IF data = <<>> THEN subdomains
    ELSE ParseEntries(domain, AddEntry(domain, subdomains, Head(data)), Tail(data))

(***************************************************************************)
(* Exceptions.  A response of crt.sh is one of: a connection failure or    *)
(* timeout, a non-success status, a body that is not JSON, a JSON body     *)
(* that is not a list of objects, or a list of entries.                    *)
(***************************************************************************)
NoError == "none"

\* what each kind of response raises inside the try block
RaisedBy(kind) ==
    CASE kind = "connection_error" -> "ConnectionError"
      [] kind = "http_error"       -> "HTTPError"
      [] kind = "not_json"         -> "JSONDecodeError"
      [] kind = "not_a_list"       -> "AttributeError"
      [] OTHER                     -> NoError

\* except requests.exceptions.RequestException
IsRequestException(exc) == exc \in {"ConnectionError", "HTTPError"}

\* a fetch without the json.JSONDecodeError handler
NeverJSONDecodeError(exc) == FALSE

\* except json.JSONDecodeError
IsJSONDecodeError(exc) == exc = "JSONDecodeError"

\* get_subdomains_from_crtsh: the value returned, or the exception let through
get_subdomains_from_crtsh(domain, response) ==
    LET exc == RaisedBy(response.kind)
    IN  IF exc = NoError
        THEN [raised |-> NoError,
              value  |-> ParseEntries(domain, EmptyDict, response.data)]
        ELSE IF IsRequestException(exc) \/ IsJSONDecodeError(exc)
             THEN [raised |-> NoError, value |-> EmptyDict]
             ELSE [raised |-> exc, value |-> EmptyDict]

(***************************************************************************)
(* The table `subdomains`: a bag of rows (the id column, which nothing     *)
(* reads, is left out, so two rows of one insert order are one state; a    *)
(* bag still tells one row from two equal rows).                           *)
(*   domain TEXT NOT NULL, subdomain TEXT NOT NULL,                        *)
(*   first_seen, last_seen TIMESTAMP DEFAULT CURRENT_TIMESTAMP,            *)
(*   release_date TEXT, UNIQUE(domain, subdomain)                          *)
(***************************************************************************)
NULL == -1

Rows(table) == BagToSet(table)

RECURSIVE SumCopies(_, _)
SumCopies(table, S) ==
    IF S = {} THEN 0
    ELSE LET r == CHOOSE x \in S : TRUE
         IN  CopiesIn(r, table) + SumCopies(table, S \ {r})

\* the table with every row r replaced by F[r]
MapRows(table, F) ==
    LET T == {F[r] : r \in Rows(table)}
    IN  [t \in T |-> SumCopies(table, {r \in Rows(table) : F[r] = t})]

\* a table without the UNIQUE constraint
NoUniqueConflict(table, domain, subdomain) == FALSE

\* UNIQUE(domain, subdomain): a row with this pair exists
UniqueConflict(table, domain, subdomain) ==
    \E r \in Rows(table) : r.domain = domain /\ r.subdomain = subdomain

\* INSERT INTO subdomains (domain, subdomain, release_date) VALUES (?, ?, ?)
sql_insert(table, domain, subdomain, release_date, now) ==
    IF UniqueConflict(table, domain, subdomain)
    THEN [raised |-> "IntegrityError", table |-> table]
    ELSE [raised |-> NoError,
          table  |-> table (+) SetToBag({[domain       |-> domain,
                                          subdomain    |-> subdomain,
                                          first_seen   |-> now,
                                          last_seen    |-> now,
                                          release_date |-> release_date]})]

\* an INSERT OR REPLACE in place of the UPDATE: the row is written anew
sql_replace_row(table, domain, subdomain, now) ==
    MapRows(table, [r \in Rows(table) |->
        IF r.domain = domain /\ r.subdomain = subdomain
        THEN [r EXCEPT !.first_seen = now, !.last_seen = now,
                       !.release_date = NULL]
        ELSE r])

\* UPDATE subdomains SET last_seen = CURRENT_TIMESTAMP
\*   WHERE domain = ? AND subdomain = ?
sql_update_last_seen(table, domain, subdomain, now) ==
    MapRows(table, [r \in Rows(table) |->
        IF r.domain = domain /\ r.subdomain = subdomain
        THEN [r EXCEPT !.last_seen = now] ELSE r])

\* a SELECT without the WHERE clause
get_known_any_domain(table, domain) == {r.subdomain : r \in Rows(table)}

\* SELECT subdomain FROM subdomains WHERE domain = ?
get_known_subdomains(table, domain) ==
    {r.subdomain : r \in {x \in Rows(table) : x.domain = domain}}

\* except sqlite3.IntegrityError
IsIntegrityError(exc) == exc = "IntegrityError"

\* the body of the for loop of save_new_subdomains: the table in the open
\* transaction, or the exception the loop lets through
SaveOne(table, domain, subdomain, crtsh_subdomains, now) ==
    LET release_date ==
            IF crtsh_subdomains # EmptyDict /\ subdomain \in DOMAIN crtsh_subdomains
            THEN crtsh_subdomains[subdomain] ELSE NULL
        ins == sql_insert(table, domain, subdomain, release_date, now)
    IN  IF ins.raised = NoError THEN ins
        ELSE IF IsIntegrityError(ins.raised)
             THEN [raised |-> NoError,
                   table  |-> sql_update_last_seen(table, domain, subdomain, now)]
             ELSE ins

\* for subdomain in new_subdomains (an exception ends the loop)
RECURSIVE SaveAll(_, _, _, _, _)
SaveAll(table, domain, todo, crtsh_subdomains, now) ==
    IF todo = {} THEN [raised |-> NoError, table |-> table]
    ELSE LET s   == CHOOSE x \in todo : TRUE
             one == SaveOne(table, domain, s, crtsh_subdomains, now)
         IN  IF one.raised # NoError THEN one
             ELSE SaveAll(one.table, domain, todo \ {s}, crtsh_subdomains, now)

\* a save that commits nothing
save_nothing(table, domain, new_subdomains, crtsh_subdomains, now) ==
    [raised |-> NoError, table |-> table]

\* save_new_subdomains: the table the commit writes, or the exception raised
\* (then nothing was committed)
save_new_subdomains(table, domain, new_subdomains, crtsh_subdomains, now) ==
    IF new_subdomains = {} THEN [raised |-> NoError, table |-> table]
    ELSE LET done == SaveAll(table, domain, new_subdomains, crtsh_subdomains, now)
         IN  IF done.raised = NoError THEN done
             ELSE [raised |-> done.raised, table |-> table]

\* get_subdomain_dates: SELECT subdomain, first_seen ... WHERE domain = ?
\*   AND subdomain IN (...)
get_subdomain_dates(table, domain, subdomains) ==
    LET hit == {r \in Rows(table) : r.domain = domain /\ r.subdomain \in subdomains}
    IN  [s \in {r.subdomain : r \in hit} |->
            (CHOOSE r \in hit : r.subdomain = s).first_seen]

(***************************************************************************)
(* The notifier: send_telegram_alert and send_discord_alert.               *)
(***************************************************************************)
\* '9999-99-99 99:99:99', the key of a name the dates do not hold
NoDateKey == 9999

\* dates.get(s, '9999-99-99 99:99:99')
SortKey(dates, s) == IF s \in DOMAIN dates THEN dates[s] ELSE NoDateKey

\* sorted(S, key=...): sorted is stable and a set is iterated in an order
\* Python does not fix, so every order with non-decreasing keys can result
SortedOrders(S, dates) ==
    {o \in [1..Cardinality(S) -> S] :
        /\ \A i, j \in 1..Cardinality(S) : i # j => o[i] # o[j]
        /\ \A i, j \in 1..Cardinality(S) :
              i < j => SortKey(dates, o[i]) <= SortKey(dates, o[j])}

\* the dates the numbered list is sorted by
AlertDates(table, domain, new_subdomains, crtsh_subdomains) ==
    IF crtsh_subdomains # EmptyDict THEN crtsh_subdomains
    ELSE get_subdomain_dates(table, domain, new_subdomains)

\* the numbered lists a sink can be sent for new_subdomains
AlertLists(table, domain, new_subdomains, crtsh_subdomains) ==
    SortedOrders(new_subdomains,
                 AlertDates(table, domain, new_subdomains, crtsh_subdomains))

\* send_telegram_alert returns at once unless token, chat id and names are set
TelegramEnabled(token, chat_id, new_subdomains) ==
    token /\ chat_id /\ new_subdomains # {}

\* a sender that skips a single name
DiscordEnabledMany(webhook_url, new_subdomains) ==
    webhook_url /\ Cardinality(new_subdomains) > 1

\* send_discord_alert returns at once unless webhook url and names are set
DiscordEnabled(webhook_url, new_subdomains) ==
    webhook_url /\ new_subdomains # {}

(***************************************************************************)
(* The world the scheduler runs in: two domains, the names crt.sh lists    *)
(* for each, and the responses a fetch can get.                            *)
(***************************************************************************)
DomainA == <<"a", ".", "c">>
DomainB == <<"b", ".", "c">>
Domains == {DomainA, DomainB}

\* name_value lines of the certificates of a domain, as crt.sh spells them
RawNames(domain) ==
    IF domain = DomainA
    THEN {<<"x", ".", "a", ".", "c">>, <<"*", ".", "Y", ".", "A", ".", "c">>}
    ELSE {<<"x", ".">> \o domain}

\* the entries of a response: one name each; crt.sh dates the plain names
\* and gives the wildcard certificate no timestamp
MaxEntries == 2

Entries(domain) ==
    {[name_value |-> n, entry_timestamp |-> IF Head(n) = "*" THEN 0 ELSE 1,
      not_before |-> 0] : n \in RawNames(domain)}

RECURSIVE SeqsUpTo(_, _)
SeqsUpTo(S, n) ==
    IF n = 0 THEN {<<>>}
    ELSE LET shorter == SeqsUpTo(S, n - 1)
         IN  shorter \cup {Append(q, x) : q \in shorter, x \in S}

Responses(domain) ==
    {[kind |-> k, data |-> <<>>] :
        k \in {"connection_error", "http_error", "not_json", "not_a_list"}}
    \cup {[kind |-> "ok", data |-> d] : d \in SeqsUpTo(Entries(domain), MaxEntries)}

(***************************************************************************)
(* State.                                                                  *)
(***************************************************************************)
VARIABLES
    telegram_bot_token,   \* self.telegram_bot_token is set (non-empty)
    telegram_chat_id,     \* self.telegram_chat_id is set
    discord_webhook_url,  \* self.discord_webhook_url is set
    domains,              \* self.domains
    interval,             \* self.interval
    running,              \* self.running
    table,                \* the rows of subdomains.db
    now,                  \* CURRENT_TIMESTAMP
    mpc,                  \* where monitor() stands
    snap,                 \* monitor(): the local `domains`
    ivl,                  \* monitor(): the local `interval`
    slept,                \* monitor(): iterations of the sleep loop done
    tick,                 \* iterations of the while loop entered
    threads,              \* monitor(): the local `threads`, one per worker
    ncmds,                \* chat commands handled
    reply,                \* the last reply_text of a command handler
    last_cycle,           \* per domain: the last cycle that ran to its end
    announced,            \* (sink, domain, name) posted to a sink
    reannounced,          \* (sink, domain, name) posted to a sink again
    arg,                  \* the input of a function checked on its own
    ret                   \* and its result

configVars == <<telegram_bot_token, telegram_chat_id, discord_webhook_url>>
listVars   == <<domains, interval, running>>
storeVars  == <<table, now>>
loopVars   == <<mpc, snap, ivl, slept, tick>>
cmdVars    == <<ncmds, reply>>
ghostVars  == <<last_cycle, announced, reannounced>>
pureVars   == <<arg, ret>>

vars == <<configVars, listVars, storeVars, loopVars, threads, cmdVars,
          ghostVars, pureVars>>

None == "-"

\* no cycle of the domain ran to its end without a failed fetch
NoCycle == [tick |-> -1, fetched |-> {}]

(***************************************************************************)
(* main(): the state once SubdomainMonitor is constructed and the monitor  *)
(* thread is started.  The domain list comes from the configuration as it  *)
(* is written (stripped, empty items dropped); subdomains.db is the file   *)
(* an earlier run left.                                                    *)
(***************************************************************************)
\* DOMAINS of the configurations explored: one domain, two domains, and a
\* domain written twice (main() keeps the list as it is written)
InitDomainLists == {<<DomainA>>, <<DomainA, DomainB>>, <<DomainB, DomainB>>}

\* a row an earlier run stored for DomainA
EarlierRow ==
    [domain |-> DomainA, subdomain |-> <<"y", ".", "a", ".", "c">>,
     first_seen |-> 0, last_seen |-> 0, release_date |-> 0]

InitTables == {EmptyBag, SetToBag({EarlierRow})}

\* (token, chat id, webhook url) of the configurations explored: both sinks
\* with the bot, Discord alone without the bot, and a token without chat id
SinkConfigs ==
    {<<TRUE, TRUE, TRUE>>, <<FALSE, FALSE, TRUE>>, <<TRUE, FALSE, FALSE>>}

\* main() returns before the monitor exists unless a token or a webhook is set
StartupAccepts(token, webhook_url, domain_list) ==
    (token \/ webhook_url) /\ domain_list # <<>>

Init ==
    /\ \E c \in SinkConfigs :
          /\ telegram_bot_token = c[1]
          /\ telegram_chat_id = c[2]
          /\ discord_webhook_url = c[3]
    /\ domains \in InitDomainLists
    /\ StartupAccepts(telegram_bot_token, discord_webhook_url, domains)
    /\ interval \in 1..MaxInterval
    /\ running = TRUE
    /\ table \in InitTables
    /\ now = 1
    /\ mpc = "while"
    /\ snap = <<>>
    /\ ivl = 0
    /\ slept = 0
    /\ tick = 0
    /\ threads = <<>>
    /\ ncmds = 0
    /\ reply = None
    /\ last_cycle = [d \in Domains |-> NoCycle]
    /\ announced = {}
    /\ reannounced = {}
    /\ arg = None
    /\ ret = None

(***************************************************************************)
(* SubdomainMonitor: the accessors.                                        *)
(***************************************************************************)
\* get_domains: list(self.domains) under the lock, a copy
get_domains == domains

\* get_interval: self.interval under the lock
get_interval == interval

(***************************************************************************)
(* monitor_domain: one worker thread.                                      *)
(***************************************************************************)
\* a thread that monitor() has started on `domain` in iteration `t`:
\*   crtsh_subdomains, known_subdomains, new_subdomains: the locals;
\*   fetch_failed: the fetch logged an error and returned {};
\*   wrote: save_new_subdomains changed the table;
\*   sent: the messages posted, in order, each delivered or not;
\*   logged: the exception monitor_domain caught and logged;
\*   raised: the exception that left monitor_domain
Started(domain, t) ==
    [domain |-> domain, tick |-> t, pc |-> "fetch",
     crtsh_subdomains |-> EmptyDict, fetch_failed |-> FALSE,
     known_subdomains |-> {}, new_subdomains |-> {}, wrote |-> FALSE,
     sent |-> <<>>, logged |-> NoError, raised |-> NoError]

\* a thread whose monitor_domain has returned (its locals are gone) or that
\* an exception ended
Ended(thread, logged, raised) ==
    [Started(thread.domain, thread.tick) EXCEPT
        !.pc = "done", !.logged = logged, !.raised = raised]

\* a handler for request errors only
IsRequestError(exc) == exc \in {"ConnectionError", "HTTPError"}

\* except Exception as e
IsException(exc) ==
    exc \in {"ConnectionError", "HTTPError", "JSONDecodeError",
             "AttributeError", "IntegrityError", "OperationalError"}

\* an exception raised inside the try block of monitor_domain
Raise(i, exc) ==
    threads' = [threads EXCEPT ![i] =
        IF IsException(exc) THEN Ended(threads[i], exc, NoError)
        ELSE Ended(threads[i], NoError, exc)]

Workers == DOMAIN threads

\* crtsh_subdomains = self.get_subdomains_from_crtsh(domain)
Fetch(i) ==
    /\ threads[i].pc = "fetch"
    /\ \E response \in Responses(threads[i].domain) :
          LET got == get_subdomains_from_crtsh(threads[i].domain, response)
          IN  IF got.raised = NoError
              THEN threads' = [threads EXCEPT
                      ![i].pc = "known",
                      ![i].crtsh_subdomains = got.value,
                      ![i].fetch_failed = RaisedBy(response.kind) # NoError]
              ELSE Raise(i, got.raised)
    /\ UNCHANGED <<configVars, listVars, storeVars, loopVars, cmdVars,
                   ghostVars, pureVars>>

\* known_subdomains = self.get_known_subdomains(domain)
\* new_subdomains = current_subdomains - known_subdomains
Diff(i) ==
    /\ threads[i].pc = "known"
    /\ LET known == get_known_subdomains(table, threads[i].domain)
           new   == (DOMAIN threads[i].crtsh_subdomains) \ known
       IN  threads' = [threads EXCEPT
               ![i].pc = IF new # {} THEN "save" ELSE "return",
               ![i].known_subdomains = known,
               ![i].new_subdomains = new]
    /\ UNCHANGED <<configVars, listVars, storeVars, loopVars, cmdVars,
                   ghostVars, pureVars>>

\* a cycle that goes on to notify when the store fails
StoreFailsThenNotifies(i) ==
    /\ threads[i].pc \in {"known", "save"}
    /\ threads' = [threads EXCEPT ![i].pc = "telegram"]
    /\ UNCHANGED <<configVars, listVars, storeVars, loopVars, cmdVars,
                   ghostVars, pureVars>>

\* sqlite3 fails while reading or writing (database is locked, disk I/O
\* error): the exception leaves the store call, nothing is committed
StoreFails(i) ==
    /\ threads[i].pc \in {"known", "save"}
    /\ Raise(i, "OperationalError")
    /\ UNCHANGED <<configVars, listVars, storeVars, loopVars, cmdVars,
                   ghostVars, pureVars>>

\* self.save_new_subdomains(domain, new_subdomains, crtsh_subdomains)
Save(i) ==
    /\ threads[i].pc = "save"
    /\ LET saved == save_new_subdomains(table, threads[i].domain,
                        threads[i].new_subdomains, threads[i].crtsh_subdomains,
                        now)
       IN  IF saved.raised = NoError
           THEN /\ table' = saved.table
                /\ threads' = [threads EXCEPT ![i].pc = "telegram",
                                              ![i].wrote = saved.table # table]
           ELSE /\ table' = table
                /\ Raise(i, saved.raised)
    /\ UNCHANGED <<configVars, listVars, now, loopVars, cmdVars, ghostVars,
                   pureVars>>

\* the names of a message, as (sink, domain, name)
Announces(sink, domain, list) ==
    {<<sink, domain, list[k]>> : k \in DOMAIN list}

\* requests.post of one message; a failed delivery is logged, not raised
Post(i, sink, next_pc) ==
    \E list \in AlertLists(table, threads[i].domain, threads[i].new_subdomains,
                           threads[i].crtsh_subdomains),
       delivered \in BOOLEAN :
        /\ threads' = [threads EXCEPT
              ![i].pc = next_pc,
              ![i].sent = Append(@, [sink |-> sink, subdomains |-> list,
                                     delivered |-> delivered])]
        /\ announced' = announced \cup Announces(sink, threads[i].domain, list)
        /\ reannounced' = reannounced
              \cup (announced \cap Announces(sink, threads[i].domain, list))
        /\ UNCHANGED last_cycle

\* self.send_telegram_alert(domain, new_subdomains, crtsh_subdomains)
SendTelegram(i) ==
    /\ threads[i].pc = "telegram"
    /\ IF TelegramEnabled(telegram_bot_token, telegram_chat_id,
                          threads[i].new_subdomains)
       THEN Post(i, "telegram", "discord")
       ELSE /\ threads' = [threads EXCEPT ![i].pc = "discord"]
            /\ UNCHANGED ghostVars
    /\ UNCHANGED <<configVars, listVars, storeVars, loopVars, cmdVars, pureVars>>

\* a cycle that gives up on Discord once a delivery has failed
SendDiscordIfDelivered(i) ==
    /\ threads[i].pc = "discord"
    /\ IF /\ DiscordEnabled(discord_webhook_url, threads[i].new_subdomains)
          /\ \A n \in DOMAIN threads[i].sent : threads[i].sent[n].delivered
       THEN Post(i, "discord", "return")
       ELSE /\ threads' = [threads EXCEPT ![i].pc = "return"]
            /\ UNCHANGED ghostVars
    /\ UNCHANGED <<configVars, listVars, storeVars, loopVars, cmdVars, pureVars>>

\* self.send_discord_alert(domain, new_subdomains, crtsh_subdomains)
SendDiscord(i) ==
    /\ threads[i].pc = "discord"
    /\ IF DiscordEnabled(discord_webhook_url, threads[i].new_subdomains)
       THEN Post(i, "discord", "return")
       ELSE /\ threads' = [threads EXCEPT ![i].pc = "return"]
            /\ UNCHANGED ghostVars
    /\ UNCHANGED <<configVars, listVars, storeVars, loopVars, cmdVars, pureVars>>

\* monitor_domain returns: the try block ran to its end
Return(i) ==
    /\ threads[i].pc = "return"
    /\ threads' = [threads EXCEPT ![i] = Ended(threads[i], NoError, NoError)]
    /\ last_cycle' = [last_cycle EXCEPT ![threads[i].domain] =
          IF threads[i].fetch_failed THEN NoCycle
          ELSE [tick |-> tick, fetched |-> DOMAIN threads[i].crtsh_subdomains]]
    /\ UNCHANGED <<configVars, listVars, storeVars, loopVars, cmdVars,
                   announced, reannounced, pureVars>>

monitor_domain(i) ==
    \/ Fetch(i)
    \/ Diff(i)
    \/ StoreFails(i)
    \/ Save(i)
    \/ SendTelegram(i)
    \/ SendDiscord(i)
    \/ Return(i)

(***************************************************************************)
(* monitor: the scheduler loop.                                            *)
(***************************************************************************)
\* while True
LoopForever == TRUE

\* while self.running
LoopCondition == running

WhileRunning ==
    /\ mpc = "while"
    /\ IF LoopCondition
       THEN /\ tick < MaxTicks
            /\ mpc' = "get_domains"
            /\ tick' = tick + 1
       ELSE /\ mpc' = "exited"
            /\ UNCHANGED tick
    /\ UNCHANGED <<configVars, listVars, storeVars, snap, ivl, slept, threads,
                   cmdVars, ghostVars, pureVars>>

\* domains = self.get_domains()
SnapshotDomains ==
    /\ mpc = "get_domains"
    /\ snap' = get_domains
    /\ mpc' = "get_interval"
    /\ UNCHANGED <<configVars, listVars, storeVars, ivl, slept, tick, threads,
                   cmdVars, ghostVars, pureVars>>

\* interval = self.get_interval()
SnapshotInterval ==
    /\ mpc = "get_interval"
    /\ ivl' = get_interval
    /\ mpc' = "start"
    /\ UNCHANGED <<configVars, listVars, storeVars, snap, slept, tick, threads,
                   cmdVars, ghostVars, pureVars>>

\* the list of the object as it is now
LiveList == domains

\* the list the for loop starts threads for: the local `domains`
StartList == snap

\* for domain in domains: t = threading.Thread(...); t.start(); threads.append(t)
\* (a thread started early only runs ahead of one started late, and a
\* started thread need not be scheduled at once: one step loses no run)
StartThreads ==
    /\ mpc = "start"
    /\ threads' = [i \in 1..Len(StartList) |-> Started(StartList[i], tick)]
    /\ mpc' = "join"
    /\ UNCHANGED <<configVars, listVars, storeVars, snap, ivl, slept, tick,
                   cmdVars, ghostVars, pureVars>>

\* a loop that does not wait for its threads
NoJoin == TRUE

\* for t in threads: t.join() returns once every thread has ended
Joined == \A i \in Workers : threads[i].pc = "done"

JoinThreads ==
    /\ mpc = "join"
    /\ Joined
    /\ mpc' = "sleep"
    /\ slept' = 0
    /\ UNCHANGED <<configVars, listVars, storeVars, snap, ivl, tick, threads,
                   cmdVars, ghostVars, pureVars>>

\* a sleep that looks at the interval of the object every second
SleepLive ==
    /\ mpc = "sleep"
    /\ IF slept < get_interval /\ running
       THEN /\ slept' = slept + 1
            /\ now' = now + 1
            /\ UNCHANGED mpc
       ELSE /\ mpc' = "while"
            /\ UNCHANGED <<slept, now>>
    /\ UNCHANGED <<configVars, listVars, table, snap, ivl, tick, threads,
                   cmdVars, ghostVars, pureVars>>

\* for _ in range(interval): if not self.running: break; time.sleep(1)
Sleep ==
    /\ mpc = "sleep"
    /\ IF slept < ivl /\ running
       THEN /\ slept' = slept + 1
            /\ now' = now + 1
            /\ UNCHANGED mpc
       ELSE /\ mpc' = "while"
            /\ UNCHANGED <<slept, now>>
    /\ UNCHANGED <<configVars, listVars, table, snap, ivl, tick, threads,
                   cmdVars, ghostVars, pureVars>>

monitor ==
    \/ WhileRunning
    \/ SnapshotDomains
    \/ SnapshotInterval
    \/ StartThreads
    \/ JoinThreads
    \/ Sleep

\* stop()
stop ==
    /\ running
    /\ running' = FALSE
    /\ UNCHANGED <<configVars, domains, interval, storeVars, loopVars, threads,
                   cmdVars, ghostVars, pureVars>>

(***************************************************************************)
(* The Telegram command handlers.  main() builds the bot only when token   *)
(* and chat id are set; the bot runs one handler at a time, and a handler  *)
(* reads self.domains once and writes it once, so a handler is one step.   *)
(***************************************************************************)
BotRuns == telegram_bot_token /\ telegram_chat_id

\* what an operator types after /add and /del
DomainArgs == Domains \cup {<<" ", "B", ".", "c">>}

\* what an operator types after /interval: a number or not
IntervalArgs ==
    {[number |-> TRUE, value |-> v] : v \in 0..MaxInterval}
    \cup {[number |-> FALSE, value |-> 0]}

InList(d, list) == \E k \in DOMAIN list : list[k] = d

\* list.remove(d): the first occurrence
RECURSIVE Remove(_, _)
Remove(list, d) ==
    IF list = <<>> THEN <<>>
    ELSE IF Head(list) = d THEN Tail(list)
         ELSE <<Head(list)>> \o Remove(Tail(list), d)

\* set_domains under the lock
set_domains(list) == domains' = list

\* set_interval under the lock
set_interval(seconds) == interval' = seconds

\* /add, while fewer than limit commands were handled
AddDomain(limit) ==
    /\ BotRuns /\ ncmds < limit
    /\ ncmds' = ncmds + 1
    /\ \E text \in DomainArgs, active \in BOOLEAN :
          LET domain == lower(strip(text))
              list   == get_domains
          IN  IF InList(domain, list)
              THEN reply' = "already monitored" /\ UNCHANGED domains
              ELSE IF ~active
                   THEN reply' = "not active" /\ UNCHANGED domains
                   ELSE /\ Len(list) < MaxDomains
                        /\ set_domains(Append(list, domain))
                        /\ reply' = "added"
    /\ UNCHANGED <<configVars, interval, running, storeVars, loopVars, threads,
                   ghostVars, pureVars>>

\* /add
add_domain == AddDomain(MaxCmds)

\* a /del that also purges the rows of the domain it removes
del_domain_purging ==
    /\ BotRuns /\ ncmds < MaxCmds
    /\ ncmds' = ncmds + 1
    /\ \E text \in DomainArgs :
          LET domain == lower(strip(text))
              list   == get_domains
          IN  IF ~InList(domain, list)
              THEN reply' = "not in list" /\ UNCHANGED <<domains, table>>
              ELSE /\ set_domains(Remove(list, domain))
                   /\ reply' = "removed"
                   /\ table' = table
                         (-) SetToBag({r \in Rows(table) : r.domain = domain})
    /\ UNCHANGED <<configVars, interval, running, now, loopVars, threads,
                   ghostVars, pureVars>>

\* a /del that forgets what was stored for the domain it removes
DelDomainForgetting(limit) ==
    /\ BotRuns /\ ncmds < limit
    /\ ncmds' = ncmds + 1
    /\ \E text \in DomainArgs :
          LET domain == lower(strip(text))
              list   == get_domains
          IN  IF ~InList(domain, list)
              THEN reply' = "not in list" /\ UNCHANGED <<domains, table>>
              ELSE /\ set_domains(Remove(list, domain))
                   /\ reply' = "removed"
                   /\ table' = table
                         (-) SetToBag({r \in Rows(table) : r.domain = domain})
    /\ UNCHANGED <<configVars, interval, running, now, loopVars, threads,
                   ghostVars, pureVars>>

\* a /del that works on the list the loop read last and writes that back
DelDomainStale(limit) ==
    /\ BotRuns /\ ncmds < limit
    /\ ncmds' = ncmds + 1
    /\ \E text \in DomainArgs :
          LET domain == lower(strip(text))
              list   == snap
          IN  IF ~InList(domain, list)
              THEN reply' = "not in list" /\ UNCHANGED domains
              ELSE /\ set_domains(Remove(list, domain))
                   /\ reply' = "removed"
    /\ UNCHANGED <<configVars, interval, running, storeVars, loopVars, threads,
                   ghostVars, pureVars>>

\* /del, while fewer than limit commands were handled
DelDomain(limit) ==
    /\ BotRuns /\ ncmds < limit
    /\ ncmds' = ncmds + 1
    /\ \E text \in DomainArgs :
          LET domain == lower(strip(text))
              list   == get_domains
          IN  IF ~InList(domain, list)
              THEN reply' = "not in list" /\ UNCHANGED domains
              ELSE /\ set_domains(Remove(list, domain))
                   /\ reply' = "removed"
    /\ UNCHANGED <<configVars, interval, running, storeVars, loopVars, threads,
                   ghostVars, pureVars>>

\* /del
del_domain == DelDomain(MaxCmds)

\* /interval with one of the texts, while fewer than limit commands were
\* handled
SetIntervalCmd(limit, texts) ==
    /\ BotRuns /\ ncmds < limit
    /\ ncmds' = ncmds + 1
    /\ \E text \in texts :
          IF ~text.number \/ text.value < 1
          THEN reply' = "interval rejected" /\ UNCHANGED interval
          ELSE /\ set_interval(text.value)
               /\ reply' = "interval set"
    /\ UNCHANGED <<configVars, domains, running, storeVars, loopVars, threads,
                   ghostVars, pureVars>>

\* /interval
set_interval_cmd == SetIntervalCmd(MaxCmds, IntervalArgs)

commands == add_domain \/ del_domain \/ set_interval_cmd

Next ==
    \/ monitor
    \/ \E i \in Workers : monitor_domain(i)
    \/ commands
    \/ stop

Spec == Init /\ [][Next]_vars

\* The monitor thread and every started worker thread are scheduled again
\* and again; a handler or stop() runs only when somebody calls it.
WorkerStep(i) == i \in Workers /\ monitor_domain(i)

FairSpec ==
    /\ Spec
    /\ WF_vars(monitor)
    /\ \A i \in 1..MaxDomains : WF_vars(WorkerStep(i))

(***************************************************************************)
(* Properties of a monitoring cycle.                                       *)
(***************************************************************************)
\* the cycle of worker i has computed new_subdomains and not yet returned
PastDiff(i) == threads[i].pc \in {"save", "telegram", "discord", "return"}

\* the names worker i has posted to a sink so far
SentNames(i) ==
    UNION {{threads[i].sent[n].subdomains[k] :
                k \in DOMAIN threads[i].sent[n].subdomains} :
                    n \in DOMAIN threads[i].sent}

\* worker i runs the cycle that follows, one tick later, a cycle of the same
\* domain that ran to its end with a fetch that did not fail; its own fetch
\* did not fail and returned every name the earlier cycle fetched
Consecutive(i) ==
    /\ last_cycle[threads[i].domain].tick = threads[i].tick - 1
    /\ ~threads[i].fetch_failed
    /\ last_cycle[threads[i].domain].fetched \subseteq DOMAIN threads[i].crtsh_subdomains

\* C1 as the specification states it: in the second of two consecutive
\* cycles of a domain that both run to their end, with fetched sets S1 and
\* S2 where S2 contains S1, the new set is exactly S2 - S1 and no name of S1
\* is sent to a sink.
C1_NewIsFetchedMinusPrevious ==
    \A i \in Workers :
        threads[i].pc = "return" /\ Consecutive(i) =>
            LET S1 == last_cycle[threads[i].domain].fetched
                S2 == DOMAIN threads[i].crtsh_subdomains
            IN  /\ threads[i].new_subdomains = S2 \ S1
                /\ SentNames(i) \cap S1 = {}

\* C1, amended: in the second of two consecutive cycles of a domain, with
\* fetched sets S1 and S2 where S2 contains S1, the new set is S2 minus the
\* names the store held for the domain when the cycle read it; those include
\* S1, so the new set lies within S2 - S1 and equals it exactly when no name
\* of S2 - S1 was stored already, and no name of S1 is sent to a sink.
C1_NewIsFetchedMinusKnown ==
    \A i \in Workers :
        PastDiff(i) /\ Consecutive(i) =>
            LET S1    == last_cycle[threads[i].domain].fetched
                S2    == DOMAIN threads[i].crtsh_subdomains
                known == threads[i].known_subdomains
                new   == threads[i].new_subdomains
            IN  /\ new = S2 \ known
                /\ S1 \subseteq known
                /\ new \subseteq S2 \ S1
                /\ (new = S2 \ S1) <=> ((S2 \ S1) \cap known = {})
                /\ SentNames(i) \subseteq new
                /\ SentNames(i) \cap S1 = {}

\* a second cycle at its end that fetched more than the first, found the
\* extra names new and has posted them
C1_Witness ==
    \E i \in Workers :
        /\ threads[i].pc = "return" /\ Consecutive(i)
        /\ last_cycle[threads[i].domain].fetched # {}
        /\ threads[i].new_subdomains # {}
        /\ threads[i].new_subdomains =
              (DOMAIN threads[i].crtsh_subdomains)
                  \ last_cycle[threads[i].domain].fetched
        /\ SentNames(i) = threads[i].new_subdomains

\* the rows the store holds for a (domain, hostname) pair
RowsOf(domain, subdomain) ==
    {r \in Rows(table) : r.domain = domain /\ r.subdomain = subdomain}

\* the hostnames the store holds for a domain
StoredFor(domain) == {r.subdomain : r \in {q \in Rows(table) : q.domain = domain}}

Sinks == {"telegram", "discord"}

\* the sink has what it needs to post
Configured(sink) ==
    IF sink = "telegram" THEN telegram_bot_token /\ telegram_chat_id
    ELSE discord_webhook_url

\* the list names every element of S once and nothing else
ListsExactly(list, S) ==
    /\ Len(list) = Cardinality(S)
    /\ {list[k] : k \in DOMAIN list} = S

\* C2: a cycle of monitor_domain(D) that has run to its end computed
\* new = fetched - known, with known read from the store for D; if new is
\* non-empty every hostname of new is stored for D and each configured sink
\* was sent exactly one message, listing exactly the hostnames of new, and
\* no other sink was sent anything; if new is empty this cycle changed no
\* row and sent nothing.
C2_CycleStoresAndSendsNew ==
    \A i \in Workers :
        threads[i].pc = "return" =>
            LET D    == threads[i].domain
                new  == threads[i].new_subdomains
                sent == threads[i].sent
            IN  /\ new = (DOMAIN threads[i].crtsh_subdomains)
                            \ threads[i].known_subdomains
                /\ threads[i].known_subdomains \subseteq StoredFor(D)
                /\ IF new # {}
                   THEN /\ \A h \in new : Cardinality(RowsOf(D, h)) = 1
                        /\ \A sink \in Sinks :
                              LET to == {n \in DOMAIN sent : sent[n].sink = sink}
                              IN  IF Configured(sink)
                                  THEN /\ Cardinality(to) = 1
                                       /\ \A n \in to :
                                             ListsExactly(sent[n].subdomains, new)
                                  ELSE to = {}
                   ELSE /\ ~threads[i].wrote
                        /\ sent = <<>>

\* a cycle at its end that found two new names, stored them and posted them
\* to both sinks
C2_Witness ==
    \E i \in Workers :
        /\ threads[i].pc = "return"
        /\ Cardinality(threads[i].new_subdomains) = 2
        /\ threads[i].wrote
        /\ Configured("telegram") /\ Configured("discord")
        /\ Len(threads[i].sent) = 2

\* C3: the store never holds two rows for one (domain, hostname) pair.
\* Saving a pair that is stored already raises nothing, leaves the number of
\* rows as it is and changes nothing but last_seen of that pair's row; the
\* save of a worker whose new names a racing cycle has stored meanwhile
\* raises nothing and adds rows for the other names only.
C3_OneRowPerPair ==
    /\ \A r \in Rows(table) :
          /\ CopiesIn(r, table) = 1
          /\ RowsOf(r.domain, r.subdomain) = {r}
    /\ \A r \in Rows(table) :
          \A dates \in {EmptyDict, DictSet(EmptyDict, r.subdomain, now)} :
             LET again == save_new_subdomains(table, r.domain, {r.subdomain},
                                              dates, now)
             IN  /\ again.raised = NoError
                 /\ BagCardinality(again.table) = BagCardinality(table)
                 /\ Rows(again.table) =
                       (Rows(table) \ {r}) \cup {[r EXCEPT !.last_seen = now]}
    /\ \A i \in Workers :
          threads[i].pc = "save" =>
             LET D     == threads[i].domain
                 after == save_new_subdomains(table, D, threads[i].new_subdomains,
                                              threads[i].crtsh_subdomains, now)
             IN  /\ after.raised = NoError
                 /\ BagCardinality(after.table) = BagCardinality(table)
                       + Cardinality(threads[i].new_subdomains \ StoredFor(D))

\* a worker has saved names that a racing cycle of the same domain stored
\* after this worker read the store: its save changed no row
C3_Witness ==
    \E i \in Workers :
        /\ threads[i].pc = "telegram"
        /\ threads[i].new_subdomains # {}
        /\ ~threads[i].wrote
        /\ \A h \in threads[i].new_subdomains :
              Cardinality(RowsOf(threads[i].domain, h)) = 1

\* C4 as the specification states it: across all ticks and all workers no
\* (domain, hostname) is posted to one sink twice, whether or not the first
\* post was delivered.
C4_AnnouncedAtMostOnce == reannounced = {}

(***************************************************************************)
(* Properties of the scheduler loop.                                       *)
(***************************************************************************)
\* C5: a tick starts exactly one worker per entry of the snapshot of the
\* domain list it took at its start, in order; the snapshot and the number
\* and domains of the started workers stay as they are while the tick runs,
\* whatever add_domain and del_domain do to the list meanwhile; the next
\* tick's snapshot is the list as changed.
C5_WorkersFollowSnapshot ==
    [][/\ (mpc = "get_domains" /\ mpc' # mpc => snap' = domains)
       /\ (mpc \in {"get_interval", "start", "join"} => snap' = snap)
       /\ (mpc' = "join" =>
              /\ Len(threads') = Len(snap')
              /\ \A i \in DOMAIN threads' :
                    threads'[i].domain = snap'[i] /\ threads'[i].tick = tick')
       /\ (mpc = "join" /\ mpc' = "join" =>
              /\ Len(threads') = Len(threads)
              /\ \A i \in DOMAIN threads : threads'[i].domain = threads[i].domain)
      ]_vars

\* a tick whose worker is in flight while /add has made the list longer than
\* the tick's snapshot
C5_Witness ==
    /\ mpc = "join"
    /\ reply = "added"
    /\ Len(domains) > Len(snap)
    /\ Len(threads) = Len(snap)
    /\ \E i \in Workers : threads[i].pc \notin {"fetch", "done"}

\* C6: a worker runs only while the loop waits in the join of the tick that
\* started it: when the loop sleeps, checks its condition or prepares the
\* next tick, every worker has ended, so workers of two ticks never run at
\* the same time.
C6_TicksDoNotOverlap ==
    \A i \in Workers :
        threads[i].pc # "done" => mpc = "join" /\ threads[i].tick = tick

\* the workers of a second tick are running
C6_Witness ==
    /\ tick = 2
    /\ mpc = "join"
    /\ \E i \in Workers : threads[i].pc \notin {"fetch", "done"}

\* C7: the scheduler is running when constructed; running changes only by
\* stop(), and only to stopped, for good; once stopped no tick is started;
\* stop() cancels no worker; and once stopped, the workers in flight end and
\* the loop exits.
C7_StopIsFinal ==
    /\ running = TRUE
    /\ [][running' # running => stop]_vars
    /\ [][~running => ~running']_vars
    /\ [][~running => tick' = tick]_vars
    /\ [][running /\ ~running' => threads' = threads]_vars
    /\ (~running ~> (mpc = "exited"
                       /\ \A i \in Workers : threads[i].pc = "done"))

\* the loop has exited after a stop() that came while a tick's worker had
\* stored its new names: the worker went on to its end
C7_Witness ==
    /\ ~running
    /\ mpc = "exited"
    /\ tick = 1
    /\ \E i \in Workers :
          /\ threads[i].pc = "done"
          /\ last_cycle[threads[i].domain].tick = tick
          /\ last_cycle[threads[i].domain].fetched # {}

\* C8: no exception leaves monitor_domain; the step in which a worker's
\* error is caught changes no other worker and nothing of the loop; and
\* every join ends, so the loop comes back to its condition for the next
\* tick whatever happened in the workers.
C8_ErrorsStayInWorker ==
    /\ [](\A i \in Workers : threads[i].raised = NoError)
    /\ [][\A i \in Workers :
            (i \in DOMAIN threads'
             /\ threads[i].logged = NoError /\ threads'[i].logged # NoError) =>
                /\ \A j \in Workers \ {i} : threads'[j] = threads[j]
                /\ UNCHANGED <<loopVars, listVars, storeVars>>]_vars
    /\ ((mpc = "join") ~> (mpc = "while"))

\* a tick is over in which one worker's cycle ended in a caught error and
\* the cycle of another domain ran to its end
C8_Witness ==
    /\ mpc = "while"
    /\ \E i, j \in Workers :
          /\ threads[i].pc = "done" /\ threads[i].logged # NoError
          /\ threads[j].pc = "done" /\ threads[j].logged = NoError
          /\ threads[j].domain # threads[i].domain
          /\ last_cycle[threads[j].domain].tick = tick

\* the ways a fetch fails inside get_subdomains_from_crtsh
FetchFailures == {"connection_error", "http_error", "not_json"}

Pieces ==
    {<<"*", ".">>, <<"*">>, <<".">>, <<"x">>, <<"X">>, <<" ">>,
     DomainA, <<"A", ".", "c">>}

RECURSIVE Concats(_)
Concats(n) ==
    IF n = 0 THEN {<<>>}
    ELSE LET shorter == Concats(n - 1)
         IN  shorter \cup {q \o p : q \in shorter, p \in Pieces}

RawLines == Concats(MaxPieces)

NormInit ==
    /\ arg \in [domain : {DomainA}, line : RawLines]
    /\ ret = <<>>
    /\ telegram_bot_token = FALSE
    /\ telegram_chat_id = FALSE
    /\ discord_webhook_url = TRUE
    /\ domains = <<DomainA>>
    /\ interval = 1
    /\ running = TRUE
    /\ table = EmptyBag
    /\ now = 1
    /\ mpc = "while"
    /\ snap = <<>>
    /\ ivl = 0
    /\ slept = 0
    /\ tick = 0
    /\ threads = <<>>
    /\ ncmds = 0
    /\ reply = None
    /\ last_cycle = [d \in Domains |-> NoCycle]
    /\ announced = {}
    /\ reannounced = {}

\* the name the loop keeps for the line, <<>> when it keeps none
Normalize ==
    /\ ret = <<>>
    /\ ret' = <<NormalizeName(arg.domain, arg.line)>>
    /\ UNCHANGED <<configVars, listVars, storeVars, loopVars, threads, cmdVars,
                   ghostVars, arg>>

NormSpec == NormInit /\ [][Normalize]_vars

\* the normalization the specification describes: trim, lowercase, strip
\* one leading wildcard label, accept a name that ends with '.' + domain
StatedName(domain, line) ==
    LET trimmed == lower(strip(line))
        name    == IF startswith(trimmed, Wildcard)
                   THEN SubSeq(trimmed, 3, Len(trimmed)) ELSE trimmed
    IN  IF endswith(name, DotDomain(domain)) THEN name ELSE <<>>

\* C10 as the specification states it: for every raw name and domain the
\* fetch keeps the name trimmed, lowercased and with one leading wildcard
\* label stripped if that name ends with '.' + domain, and keeps nothing
\* otherwise.
C10_NormalizesAsStated ==
    Len(ret) = 1 => ret[1] = StatedName(arg.domain, arg.line)

(***************************************************************************)
(* The fetch's loop over a whole response, on its own: a list of entries   *)
(* is drawn and get_subdomains_from_crtsh is applied to it.                *)
(***************************************************************************)
\* entries of a drawn response
MaxFetched == 3
\* latest date of a drawn entry
MaxDate == 2

\* the state of everything the function under check does not touch
AtRest ==
    /\ telegram_bot_token = FALSE
    /\ telegram_chat_id = FALSE
    /\ discord_webhook_url = TRUE
    /\ domains = <<DomainA>>
    /\ interval = 1
    /\ running = TRUE
    /\ table = EmptyBag
    /\ now = 1
    /\ mpc = "while"
    /\ snap = <<>>
    /\ ivl = 0
    /\ slept = 0
    /\ tick = 0
    /\ threads = <<>>
    /\ ncmds = 0
    /\ reply = None
    /\ last_cycle = [d \in Domains |-> NoCycle]
    /\ announced = {}
    /\ reannounced = {}

restVars == <<configVars, listVars, storeVars, loopVars, threads, cmdVars,
              ghostVars>>

\* entries of certificates for two names of DomainA, one of them also as a
\* wildcard in capitals, each with or without entry_timestamp and not_before
DatedEntries ==
    [name_value      : {<<"x", ".", "a", ".", "c">>,
                        <<"*", ".", "X", ".", "A", ".", "c">>,
                        <<"y", ".", "a", ".", "c">>},
     entry_timestamp : 0..MaxDate,
     not_before      : 0..MaxDate]

FetchInit ==
    /\ arg \in [domain : {DomainA},
                 response : {[kind |-> "ok", data |-> d] :
                                d \in SeqsUpTo(DatedEntries, MaxFetched)}]
    /\ ret = <<>>
    /\ AtRest

\* subdomains = get_subdomains_from_crtsh(domain)
FetchAll ==
    /\ ret = <<>>
    /\ ret' = <<get_subdomains_from_crtsh(arg.domain, arg.response)>>
    /\ UNCHANGED <<restVars, arg>>

FetchSpec == FetchInit /\ [][FetchAll]_vars

\* the names an entry carries for the domain (one per line of name_value)
NamesOf(domain, entry) ==
    LET lines == split(entry.name_value, "\n")
    IN  {NormalizeName(domain, lines[k]) : k \in DOMAIN lines} \ {<<>>}

\* the non-empty timestamps of the entries that carry the name
StampsOf(domain, data, name) ==
    {EntryTime(data[k]) : k \in {n \in DOMAIN data : name \in NamesOf(domain, data[n])}}
        \ {0}

\* the least element of a non-empty set of dates
Earliest(S) == CHOOSE d \in S : \A e \in S : d <= e

\* C11 as the specification states it: the date the fetch returns for a name
\* is the earliest non-empty timestamp among the entries that carry the
\* name, in whatever order the entries come, and empty only if none of them
\* has a timestamp.
C11_EarliestNonEmptyDate ==
    Len(ret) = 1 =>
        \A name \in DOMAIN ret[1].value :
            LET stamps == StampsOf(arg.domain, arg.response.data, name)
            IN  ret[1].value[name] = IF stamps = {} THEN 0 ELSE Earliest(stamps)

(***************************************************************************)
(* Properties of the notification messages.                                *)
(***************************************************************************)
\* the fetch gave the name a date (a key with a non-empty value)
Dated(dates, name) == name \in DOMAIN dates /\ dates[name] # 0

\* C12 as the specification states it: in every message posted, names with
\* a date come in ascending order of date, and no name without a date
\* (absent from the dates or with an empty one) comes before a name that
\* has one.
C12_DatedAscendingUnknownLast ==
    \A i \in Workers :
        \A n \in DOMAIN threads[i].sent :
            LET list  == threads[i].sent[n].subdomains
                dates == threads[i].crtsh_subdomains
            IN  \A p, q \in DOMAIN list :
                    p < q =>
                        /\ (Dated(dates, list[p]) /\ Dated(dates, list[q])
                              => dates[list[p]] <= dates[list[q]])
                        /\ ~(~Dated(dates, list[p]) /\ Dated(dates, list[q]))

(***************************************************************************)
(* The senders' numbered list, on its own: a set of new names and a dict   *)
(* of dates are drawn and the list of send_telegram_alert (the same in     *)
(* send_discord_alert) is built from them.                                 *)
(***************************************************************************)
AlertNames ==
    {<<"w", ".", "a", ".", "c">>, <<"x", ".", "a", ".", "c">>,
     <<"y", ".", "a", ".", "c">>}

\* every dict from some of the names to a date, '' included
AlertDicts == UNION {[K -> 0..MaxDate] : K \in SUBSET AlertNames}

AlertInit ==
    /\ arg \in [domain : {DomainA},
                 new_subdomains : (SUBSET AlertNames) \ {{}},
                 crtsh_subdomains : AlertDicts]
    /\ ret = <<>>
    /\ AtRest

\* sorted_subdomains = sorted(new_subdomains, key=...)
SortAlert ==
    /\ ret = <<>>
    /\ \E list \in AlertLists(table, arg.domain, arg.new_subdomains,
                               arg.crtsh_subdomains) :
          ret' = <<list>>
    /\ UNCHANGED <<restVars, arg>>

AlertSpec == AlertInit /\ [][SortAlert]_vars

\* the characters of the names, in the order of their code points
Alphabet == <<"*", ".", "a", "b", "c", "w", "x", "y">>

CharRank(c) == CHOOSE k \in DOMAIN Alphabet : Alphabet[k] = c

\* s < t for two strings, as Python compares them
RECURSIVE LexLess(_, _)
LexLess(s, t) ==
    IF t = <<>> THEN FALSE
    ELSE IF s = <<>> THEN TRUE
    ELSE IF Head(s) = Head(t) THEN LexLess(Tail(s), Tail(t))
    ELSE CharRank(Head(s)) < CharRank(Head(t))

\* C13 as the specification states it: in the list of a message, two names
\* with equal date hints (both without a date included) stand in ascending
\* lexical order, so that the new set and the dates fix the list.
C13_TiesInLexicalOrder ==
    Len(ret) = 1 =>
        LET list  == ret[1]
            dates == AlertDates(table, arg.domain, arg.new_subdomains,
                                arg.crtsh_subdomains)
        IN  \A p, q \in DOMAIN list :
                p < q /\ SortKey(dates, list[p]) = SortKey(dates, list[q])
                    => LexLess(list[p], list[q])

\* C14: a cycle with new names attempts a delivery to every configured
\* sink whatever became of the others: once past the Telegram step a
\* configured Telegram has its message, and at the end of the cycle a
\* configured Discord has its message, also after a failed Telegram
\* delivery; the step that posts a message, delivered or not, changes no
\* row, raises and logs no error in the cycle and moves it to its next step.
C14_SinksAreIndependent ==
    /\ [](\A i \in Workers :
            LET sent == threads[i].sent
            IN  /\ (threads[i].pc \in {"discord", "return"}
                     /\ threads[i].new_subdomains # {} /\ Configured("telegram")
                       => \E n \in DOMAIN sent : sent[n].sink = "telegram")
                /\ (threads[i].pc = "return"
                     /\ threads[i].new_subdomains # {} /\ Configured("discord")
                       => \E n \in DOMAIN sent : sent[n].sink = "discord"))
    /\ [][\A i \in Workers :
            (i \in DOMAIN threads'
             /\ Len(threads'[i].sent) = Len(threads[i].sent) + 1) =>
                LET m == threads'[i].sent[Len(threads'[i].sent)]
                IN  /\ table' = table
                    /\ threads'[i].logged = NoError
                    /\ threads'[i].raised = NoError
                    /\ threads'[i].pc =
                          IF m.sink = "telegram" THEN "discord" ELSE "return"
                    /\ \A j \in Workers \ {i} : threads'[j] = threads[j]]_vars

\* a cycle at its end whose Telegram delivery failed and whose Discord
\* message was posted all the same, with its new names stored
C14_Witness ==
    \E i \in Workers :
        /\ threads[i].pc = "return"
        /\ Len(threads[i].sent) = 2
        /\ threads[i].sent[1].sink = "telegram" /\ ~threads[i].sent[1].delivered
        /\ threads[i].sent[2].sink = "discord"
        /\ threads[i].new_subdomains \subseteq StoredFor(threads[i].domain)

(***************************************************************************)
(* Properties of the stored rows.                                          *)
(***************************************************************************)
\* C15 as the specification states it: when a cycle of a domain has run to
\* its end, every name the store already held for the domain and the fetch
\* reported again has its last_seen at the time of the cycle.
C15_LastSeenFollowsCycle ==
    \A i \in Workers :
        threads[i].pc = "return" =>
            \A h \in (DOMAIN threads[i].crtsh_subdomains)
                        \cap threads[i].known_subdomains :
                \A r \in RowsOf(threads[i].domain, h) : r.last_seen = now

\* the (domain, hostname) pairs the store holds
StoredPairs == {<<r.domain, r.subdomain>> : r \in Rows(table)}

\* C16: no step of a cycle, of the loop or of a command takes a stored
\* (domain, hostname) pair away; and a message names only hostnames the
\* cycle's own fetch reported and the store did not hold, so a stored
\* hostname the source no longer reports is never announced.
C16_StoreOnlyGrows ==
    /\ [][StoredPairs \subseteq StoredPairs']_vars
    /\ [](\A i \in Workers :
            /\ SentNames(i) \subseteq DOMAIN threads[i].crtsh_subdomains
            /\ SentNames(i) \cap threads[i].known_subdomains = {})

\* a cycle at its end whose fetch succeeded without a hostname the store
\* holds for the domain: the row is still there and nothing was sent
C16_Witness ==
    \E i \in Workers :
        /\ threads[i].pc = "return"
        /\ ~threads[i].fetch_failed
        /\ threads[i].known_subdomains \ DOMAIN threads[i].crtsh_subdomains # {}
        /\ threads[i].known_subdomains \subseteq StoredFor(threads[i].domain)
        /\ threads[i].sent = <<>>

\* ---------------------------------------------------------------------
\* Store initialization: init_database of both monitor scripts, on a
\* database file whose table carries its schema.  A file is a record
\* exists (is there a table subdomains), columns (its column names, the
\* id column left out), unique (the columns of its UNIQUE constraint) and
\* rows (a set of records, one field per column).
\* ---------------------------------------------------------------------

\* the most initializations of one file that are followed
MaxRuns == 2

\* a file without a table subdomains
NoTable == [exists |-> FALSE, columns |-> {}, unique |-> {}, rows |-> {}]

\* the columns of the table before the domain column was introduced, of
\* CREATE TABLE in subdomain_monitor.py and of CREATE TABLE in subdomain2.py
ColumnsV0 == {"subdomain", "first_seen", "last_seen"}
ColumnsV1 == {"domain", "subdomain", "first_seen", "last_seen"}
ColumnsV2 == {"domain", "subdomain", "first_seen", "last_seen",
              "release_date"}

\* PRAGMA table_info(subdomains): the column names, none without a table
table_info(db) == IF db.exists THEN db.columns ELSE {}

\* ALTER TABLE subdomains ADD COLUMN release_date TEXT: every row gets
\* NULL in the new column
alter_add_release_date(db) ==
    [db EXCEPT !.columns = @ \cup {"release_date"},
               !.rows = {[c \in DOMAIN r \cup {"release_date"} |->
                            IF c \in DOMAIN r THEN r[c] ELSE NULL] :
                         r \in @}]

\* a CREATE TABLE that replaces the table it finds by an empty one
create_afresh(db, columns) ==
    [exists |-> TRUE, columns |-> columns,
     unique |-> {"domain", "subdomain"}, rows |-> {}]

\* CREATE TABLE IF NOT EXISTS subdomains (... UNIQUE(domain, subdomain))
create_if_not_exists(db, columns) ==
    IF db.exists THEN db
    ELSE [exists |-> TRUE, columns |-> columns,
          unique |-> {"domain", "subdomain"}, rows |-> {}]

\* sqlite3.OperationalError of a SELECT on a missing table or column
IsOperationalError(db, columns) == ~db.exists \/ ~(columns \subseteq db.columns)

\* would INSERT of the row raise: a column the table lacks, or a row that
\* agrees with a stored one on every column of the UNIQUE constraint
InsertRaises(db, row) ==
    \/ ~db.exists
    \/ ~(DOMAIN row \subseteq db.columns)
    \/ \E r \in db.rows : \A c \in db.unique : r[c] = row[c]

\* init_database of subdomain2.py
init_database(db, domain_list) ==
    LET columns == table_info(db)
        altered == IF "release_date" \notin columns /\ db.exists
                   THEN alter_add_release_date(db)
                   ELSE db
    IN  [raised |-> NoError, db |-> create_if_not_exists(altered, ColumnsV2)]

\* DROP TABLE subdomains
drop_table(db) == NoTable

\* the rows of the old table under the default domain, as the INSERT
\* of the migration writes them
Migrated(old_data, default_domain) ==
    {[domain |-> default_domain, subdomain |-> r.subdomain,
      first_seen |-> r.first_seen, last_seen |-> r.last_seen] :
     r \in old_data}

\* two old rows with one hostname: the second INSERT of the migration
\* breaks UNIQUE(domain, subdomain)
MigrationCollides(old_data) ==
    \E r1, r2 \in old_data : r1 # r2 /\ r1.subdomain = r2.subdomain

\* init_database of subdomain_monitor.py
monitor_init_database(db, domain_list) ==
    LET columns == table_info(db)
    IN  IF "domain" \notin columns
        THEN IF IsOperationalError(db, ColumnsV0)
             THEN [raised |-> "OperationalError", db |-> db]
             ELSE LET old_data == db.rows
                      created  == create_if_not_exists(drop_table(db),
                                                       ColumnsV1)
                  IN  IF old_data # {} /\ domain_list # <<>>
                      THEN IF MigrationCollides(old_data)
                           THEN [raised |-> "IntegrityError", db |-> created]
                           ELSE [raised |-> NoError,
                                 db |-> [created EXCEPT !.rows =
                                      Migrated(old_data, domain_list[1])]]
                      ELSE [raised |-> NoError, db |-> created]
        ELSE [raised |-> NoError, db |-> create_if_not_exists(db, ColumnsV1)]

\* the script that is started
Scripts == {"subdomain2.py", "subdomain_monitor.py"}

RunInit(script, db, domain_list) ==
    IF script = "subdomain2.py"
    THEN init_database(db, domain_list)
    ELSE monitor_init_database(db, domain_list)

Host1 == <<"x", ".", "a", ".", "c">>
Host2 == <<"y", ".", "a", ".", "c">>

\* the tables a set of candidate rows allows under a UNIQUE constraint
TablesOf(columns, unique, candidates) ==
    {[exists |-> TRUE, columns |-> columns, unique |-> unique, rows |-> rs] :
     rs \in {q \in SUBSET candidates :
                \A r1, r2 \in q :
                    (\A c \in unique : r1[c] = r2[c]) => r1 = r2}}

\* the files an initialization can meet: none, the table of before the
\* domain column (one row per hostname), the table of subdomain_monitor.py
\* and the table of subdomain2.py
InitFiles ==
    {NoTable}
    \cup TablesOf(ColumnsV0, {"subdomain"},
                  [subdomain : {Host1, Host2}, first_seen : 0..1,
                   last_seen : {1}])
    \cup TablesOf(ColumnsV1, {"domain", "subdomain"},
                  [domain : {DomainA}, subdomain : {Host1, Host2},
                   first_seen : {0}, last_seen : 0..1]
                  \cup [domain : {DomainB}, subdomain : {Host1},
                        first_seen : {0}, last_seen : {1}])
    \cup TablesOf(ColumnsV2, {"domain", "subdomain"},
                  [domain : {DomainA}, subdomain : {Host1, Host2},
                   first_seen : {0}, last_seen : {1},
                   release_date : {NULL, 1}]
                  \cup [domain : {DomainB}, subdomain : {Host1},
                        first_seen : {0}, last_seen : {1},
                        release_date : {NULL}])

\* main has rejected an empty domain list before the monitor is built
InitDbInit ==
    /\ arg \in [script : Scripts,
                 domains : {<<DomainA>>, <<DomainB, DomainA>>},
                 db : InitFiles]
    /\ ret = <<>>
    /\ AtRest

\* SubdomainMonitor(...) is constructed on the file once more: ret keeps,
\* for every run, the file it found, what it raised and the file it left
InitDatabase ==
    /\ Len(ret) < MaxRuns
    /\ LET file == IF ret = <<>> THEN arg.db ELSE ret[Len(ret)].after
           r    == RunInit(arg.script, file, arg.domains)
       IN  ret' = Append(ret, [before |-> file, raised |-> r.raised,
                               after |-> r.db])
    /\ UNCHANGED <<restVars, arg>>

InitDbSpec == InitDbInit /\ [][InitDatabase]_vars

\* the (hostname, first_seen, last_seen) of the rows of a file
History(db) ==
    {<<r.subdomain, r.first_seen, r.last_seen>> : r \in db.rows}

\* C17: when init_database meets a table without the domain column, it
\* succeeds, the table keeps the hostname, first_seen and last_seen of
\* every row, every row belongs to the first configured domain, and a row
\* for the same hostname under another domain can be inserted.
C17_MigrationKeepsRows ==
    \A k \in 1..Len(ret) :
        LET run == ret[k] IN
        (run.before.exists /\ "domain" \notin run.before.columns) =>
            /\ run.raised = NoError
            /\ History(run.after) = History(run.before)
            /\ \A r \in run.after.rows :
                 "domain" \in DOMAIN r /\ r.domain = arg.domains[1]
            /\ \A r \in run.after.rows :
                 \A d \in Domains \ {arg.domains[1]} :
                    ~InsertRaises(run.after,
                                  [domain |-> d, subdomain |-> r.subdomain,
                                   first_seen |-> 1, last_seen |-> 1])

\* the same, of subdomain_monitor.py alone
C17_MonitorScriptMigrates ==
    arg.script = "subdomain_monitor.py" => C17_MigrationKeepsRows

\* the columns of the table a script creates
CurrentColumns(script) ==
    IF script = "subdomain2.py" THEN ColumnsV2 ELSE ColumnsV1

\* the file holds the table of the script's own CREATE TABLE
InCurrentSchema(script, db) ==
    /\ db.exists
    /\ db.columns = CurrentColumns(script)
    /\ db.unique = {"domain", "subdomain"}

\* C18: an initialization that finds the table of the current schema
\* raises nothing and leaves the file, schema and rows, as it found it;
\* and so does every initialization after one that succeeded.
C18_InitIsIdempotent ==
    \A k \in 1..Len(ret) :
        /\ InCurrentSchema(arg.script, ret[k].before) =>
              ret[k].raised = NoError /\ ret[k].after = ret[k].before
        /\ (k > 1 /\ ret[k-1].raised = NoError) =>
              ret[k].raised = NoError /\ ret[k].after = ret[k].before

\* subdomain2.py initialized MaxRuns times a table of the current schema
\* that holds rows
C18_Witness ==
    /\ Len(ret) = MaxRuns
    /\ arg.script = "subdomain2.py"
    /\ InCurrentSchema(arg.script, arg.db)
    /\ arg.db.rows # {}
    /\ ret[MaxRuns].after.rows = arg.db.rows

\* ---------------------------------------------------------------------
\* The /database command: the listing of the stored hostnames of a domain
\* ---------------------------------------------------------------------

\* ORDER BY release_date ASC, subdomain ASC, as SQLite compares: NULL
\* before every text, '' before every other text, a text before a later
\* one; then the hostname, byte by byte
SqlBefore(r1, r2) ==
    \/ r1.release_date < r2.release_date
    \/ r1.release_date = r2.release_date /\ LexLess(r1.subdomain, r2.subdomain)

\* the rows in that order
RECURSIVE order_by(_)
order_by(rows) ==
    IF rows = {} THEN <<>>
    ELSE LET first == CHOOSE r \in rows :
                        \A q \in rows \ {r} : SqlBefore(r, q)
         IN  <<first>> \o order_by(rows \ {first})

\* SELECT subdomain, release_date FROM subdomains WHERE domain = ?
\*   ORDER BY release_date ASC, subdomain ASC
select_listing(stored, domain) ==
    LET picked == {[subdomain |-> r.subdomain, release_date |-> r.release_date] :
                   r \in {x \in Rows(stored) : x.domain = domain}}
    IN  order_by(picked)

\* database_cmd: the reply to /database with the words after it
database_cmd(stored, args) ==
    IF args = <<>> THEN [reply |-> "usage", rows |-> <<>>]
    ELSE LET domain == lower(strip(args[1]))
             rows   == select_listing(stored, domain)
         IN  IF rows = <<>>
             THEN [reply |-> "no data", rows |-> rows]
             ELSE [reply |-> "listing", rows |-> rows]

\* rows a store can hold for DomainA and DomainB: written by a cycle with
\* a date, with '' for an entry without one, or NULL in a row that is
\* older than the release_date column
ListRows ==
    [domain : {DomainA}, subdomain : AlertNames, first_seen : {0},
     last_seen : {0}, release_date : {NULL} \cup 0..MaxDate]
    \cup [domain : {DomainB}, subdomain : {<<"x", ".", "b", ".", "c">>},
          first_seen : {0}, last_seen : {0}, release_date : {1}]

\* the tables of those rows that UNIQUE(domain, subdomain) allows
ListTables ==
    {SetToBag(rs) : rs \in {q \in SUBSET ListRows :
        \A r1, r2 \in q :
            (r1.domain = r2.domain /\ r1.subdomain = r2.subdomain) => r1 = r2}}

ListInit ==
    /\ arg \in [args : {<<>>, <<DomainA>>, <<<<" ", "A", ".", "c">>>>,
                        <<DomainB>>},
                 table : ListTables]
    /\ ret = <<>>
    /\ AtRest

\* the operator sends /database
Database ==
    /\ ret = <<>>
    /\ ret' = <<database_cmd(arg.table, arg.args)>>
    /\ UNCHANGED <<restVars, arg>>

ListSpec == ListInit /\ [][Database]_vars

\* a listed row has an earliest log date
HasDate(r) == r.release_date # NULL /\ r.release_date # 0

\* the rows of the domain the command names
ListedDomain == lower(strip(arg.args[1]))

\* C19: the listing holds every row of the domain once, rows with a date
\* before rows without, dated rows by ascending date, and rows with equal
\* dates (or both without) by ascending hostname.
C19_ListingOrder ==
    (ret # <<>> /\ arg.args # <<>>) =>
        LET rows == ret[1].rows IN
        /\ {<<r.subdomain, r.release_date>> : r \in {rows[k] : k \in DOMAIN rows}}
             = {<<r.subdomain, r.release_date>> :
                  r \in {x \in Rows(arg.table) : x.domain = ListedDomain}}
        /\ Len(rows) = Cardinality({x \in Rows(arg.table) : x.domain = ListedDomain})
        /\ \A i, j \in DOMAIN rows :
             i < j =>
               /\ HasDate(rows[j]) => HasDate(rows[i])
               /\ (HasDate(rows[i]) /\ HasDate(rows[j])) =>
                     rows[i].release_date <= rows[j].release_date
               /\ (rows[i].release_date = rows[j].release_date
                     \/ (~HasDate(rows[i]) /\ ~HasDate(rows[j]))) =>
                     LexLess(rows[i].subdomain, rows[j].subdomain)

\* the same with the rows without a date where SQLite puts them: NULL
\* first, then '', then the dates
C19_ListingOrderAbsentFirst ==
    (ret # <<>> /\ arg.args # <<>>) =>
        LET rows == ret[1].rows IN
        /\ {<<r.subdomain, r.release_date>> : r \in {rows[k] : k \in DOMAIN rows}}
             = {<<r.subdomain, r.release_date>> :
                  r \in {x \in Rows(arg.table) : x.domain = ListedDomain}}
        /\ Len(rows) = Cardinality({x \in Rows(arg.table) : x.domain = ListedDomain})
        /\ \A i, j \in DOMAIN rows :
             i < j =>
               /\ rows[i].release_date <= rows[j].release_date
               /\ rows[i].release_date = rows[j].release_date =>
                     LexLess(rows[i].subdomain, rows[j].subdomain)

\* ---------------------------------------------------------------------
\* Startup: main() of subdomain2.py, from the settings it reads to the
\* monitor it does or does not construct
\* ---------------------------------------------------------------------

\* os.getenv('DOMAINS', 'example.com') without the variable
ExampleCom == <<"e", "x", "a", "m", "p", "l", "e", ".", "c", "o", "m">>

\* [d.strip() for d in ... if d.strip()]
StripAll(list) ==
    LET stripped == [k \in DOMAIN list |-> strip(list[k])]
    IN  SelectSeq(stripped, LAMBDA d : d # <<>>)

\* raw_domains and the domain list of main: the live config's list if it
\* is not empty, else the config's DOMAINS if not '', else the environment
ParseDomains(live, config, env) ==
    IF live # <<>> THEN StripAll(live)
    ELSE IF config # <<>> THEN StripAll(split(config, ","))
    ELSE IF env.set THEN StripAll(split(env.value, ","))
    ELSE StripAll(split(ExampleCom, ","))

\* main(): what it reports and what it has constructed when it goes on
main(settings) ==
    LET domain_list == ParseDomains(settings.live_domains,
                                    settings.config_domains,
                                    settings.env_domains)
        stopped(why, exc) ==
            [raised |-> exc, message |-> why, domains |-> domain_list,
             interval |-> settings.interval.value,
             monitor |-> FALSE, thread |-> FALSE, bot |-> FALSE]
    IN  IF ~settings.interval.number
        THEN stopped(None, "ValueError")
        ELSE IF ~settings.token /\ ~settings.webhook_url
        THEN stopped("no alert method", NoError)
        ELSE IF domain_list = <<>>
        THEN stopped("no domain", NoError)
        ELSE [raised |-> NoError, message |-> None, domains |-> domain_list,
              interval |-> settings.interval.value,
              monitor |-> TRUE, thread |-> TRUE,
              bot |-> settings.token /\ settings.chat_id]

\* the settings a start can find: each of token, chat id and webhook set
\* or not, DOMAINS in the live config, the config file and the environment,
\* and the text of the interval that int() is given: a number, negative
\* and '0' included, or not a number
StartSettings ==
    [token : BOOLEAN, chat_id : BOOLEAN, webhook_url : BOOLEAN,
     live_domains : {<<>>, <<<<" ">>>>, <<DomainA>>},
     config_domains : {<<>>, <<" ", ",", " ">>,
                       DomainA \o <<",", " ">> \o DomainB},
     env_domains : {[set |-> FALSE, value |-> <<>>],
                    [set |-> TRUE, value |-> <<>>],
                    [set |-> TRUE, value |-> DomainB]},
     interval : {[number |-> TRUE, value |-> v] : v \in -1..1}
                \cup {[number |-> FALSE, value |-> 0]}]

StartInit ==
    /\ arg \in StartSettings
    /\ ret = <<>>
    /\ AtRest

\* python subdomain2.py
Start ==
    /\ ret = <<>>
    /\ ret' = <<main(arg)>>
    /\ UNCHANGED <<restVars, arg>>

StartSpec == StartInit /\ [][Start]_vars

\* a sink that can post with these settings (send_telegram_alert returns
\* at once without token or chat id, send_discord_alert without a url)
UsableSink(settings) ==
    (settings.token /\ settings.chat_id) \/ settings.webhook_url

\* C20: a start that finds no usable sink, or an empty domain list,
\* constructs no monitor and starts no monitoring thread; unless the
\* interval setting stopped it before, it has reported which of the two.
C20_StartupRejectsUnusable ==
    (ret # <<>> /\ (~UsableSink(arg) \/ ret[1].domains = <<>>)) =>
        /\ ~ret[1].monitor
        /\ ~ret[1].thread
        /\ ret[1].raised = NoError => ret[1].message # None

\* the same with the test main makes: neither a token nor a webhook
C20_StartupRejectsUnset ==
    (ret # <<>> /\ ((~arg.token /\ ~arg.webhook_url) \/ ret[1].domains = <<>>)) =>
        /\ ~ret[1].monitor
        /\ ~ret[1].thread
        /\ ret[1].raised = NoError => ret[1].message # None

\* ---------------------------------------------------------------------
\* An operator's session: the monitor with the bot, one Telegram sink,
\* several commands in a row and intervals of more than one second
\* ---------------------------------------------------------------------

\* the most commands of a session
MaxSession == 2

\* the longest interval of a session
LongInterval == 2

\* what the operator types after /interval in a session
SessionIntervalArgs ==
    {[number |-> TRUE, value |-> v] : v \in 0..LongInterval}
    \cup {[number |-> FALSE, value |-> 0]}

SessionInit ==
    /\ telegram_bot_token = TRUE
    /\ telegram_chat_id = TRUE
    /\ discord_webhook_url = FALSE
    /\ domains = <<DomainA>>
    /\ StartupAccepts(telegram_bot_token, discord_webhook_url, domains)
    /\ interval \in 1..LongInterval
    /\ running = TRUE
    /\ table \in InitTables
    /\ now = 1
    /\ mpc = "while"
    /\ snap = <<>>
    /\ ivl = 0
    /\ slept = 0
    /\ tick = 0
    /\ threads = <<>>
    /\ ncmds = 0
    /\ reply = None
    /\ last_cycle = [d \in Domains |-> NoCycle]
    /\ announced = {}
    /\ reannounced = {}
    /\ arg = None
    /\ ret = None

SessionCommands ==
    \/ AddDomain(MaxSession)
    \/ DelDomain(MaxSession)
    \/ SetIntervalCmd(MaxSession, SessionIntervalArgs)

SessionNext ==
    \/ monitor
    \/ \E i \in Workers : monitor_domain(i)
    \/ SessionCommands
    \/ stop

SessionSpec == SessionInit /\ [][SessionNext]_vars

\* the loop has read the interval of its tick and has not ended the tick
InsideTick == mpc \in {"start", "join", "sleep"}

\* C21: from the moment a tick has read its interval until the tick's
\* sleep is over, no step (a /interval command included) changes the
\* length the loop sleeps: the sleep counts up to the value read, and ends
\* early only when the monitor is stopped; the next tick reads the value
\* the object holds then.
C21_IntervalOfNextTick ==
    [][/\ (InsideTick /\ InsideTick') => ivl' = ivl
       /\ (mpc = "sleep" /\ slept' # slept) => (slept < ivl /\ slept' = slept + 1)
       /\ (mpc = "sleep" /\ mpc' = "while" /\ running) => slept = ivl
       /\ (mpc = "get_interval" /\ mpc' # mpc) => ivl' = interval]_vars

\* a sleep that ran its full old length although /interval set another
\* value during the tick
C21_Witness ==
    /\ mpc = "sleep"
    /\ reply = "interval set"
    /\ ivl >= 1
    /\ interval # ivl
    /\ slept = ivl

\* C22: every change of the domain list is the whole effect of one command
\* on the list as the command before left it (an accepted /add appends one
\* name that was not listed, an accepted /del removes one that was), every
\* accepted command changes the list, and a tick's snapshot is the list of
\* the object at that moment, which no command is changing.
C22_CommandsSerialized ==
    [][/\ domains' # domains =>
            /\ ncmds' = ncmds + 1
            /\ \/ /\ reply' = "added"
                  /\ \E d \in Domains :
                        ~InList(d, domains) /\ domains' = Append(domains, d)
               \/ /\ reply' = "removed"
                  /\ \E d \in Domains :
                        InList(d, domains) /\ domains' = Remove(domains, d)
       /\ (ncmds' # ncmds /\ reply' \in {"added", "removed"}) =>
            domains' # domains
       /\ (mpc = "get_domains" /\ mpc' # mpc) =>
            snap' = domains /\ domains' = domains]_vars

\* a tick read the list between an accepted /add and an accepted /del
C22_Witness ==
    /\ ncmds = 2
    /\ reply = "removed"
    /\ snap = <<DomainA, DomainB>>
    /\ domains = <<DomainB>>

\* C23: the domain list names no domain twice, and no two workers of a
\* tick run for the same domain.
C23_NoDomainTwice ==
    /\ \A i, j \in DOMAIN domains : i # j => domains[i] # domains[j]
    /\ \A i, j \in Workers : i # j => threads[i].domain # threads[j].domain

\* C24, the interval in use: the monitor main constructs has an interval
\* of at least one second.
C24_IntervalInUsePositive ==
    (ret # <<>> /\ ret[1].monitor) => ret[1].interval >= 1

\* C24, the commands: a command that is answered with a rejection changes
\* neither the list nor the interval, and an accepted /interval sets a
\* value of at least 1.
C24_RejectedKeepsState ==
    [][/\ (ncmds' # ncmds /\ reply' \notin {"added", "removed", "interval set"})
            => (domains' = domains /\ interval' = interval)
       /\ interval' # interval => (interval' >= 1 /\ reply' = "interval set")]_vars

\* the dates a name of worker i's message may be ordered by: the date of
\* the fetch when it gave one, else the first_seen of its stored rows
OrderingDates(i, name) ==
    IF Dated(threads[i].crtsh_subdomains, name)
    THEN {threads[i].crtsh_subdomains[name]}
    ELSE {r.first_seen : r \in RowsOf(threads[i].domain, name)}

\* C25: in every message of a cycle the names stand in ascending order of
\* the date of the fetch, with the stored first_seen in its place for
\* each name the fetch gave no date.
C25_FallbackPerHostname ==
    \A i \in Workers :
        \A n \in DOMAIN threads[i].sent :
            LET list == threads[i].sent[n].subdomains
            IN  \A p, q \in DOMAIN list :
                    p < q =>
                        \A dp \in OrderingDates(i, list[p]),
                           dq \in OrderingDates(i, list[q]) : dp <= dq

\* ---------------------------------------------------------------------
\* save_new_subdomains on its own: a table, a set of names to save for
\* DomainA (names the table already holds included, as in a lost INSERT
\* race) and the dates of a fetch
\* ---------------------------------------------------------------------

\* the time of the save, later than every time in the tables
SaveTime == 3

\* rows stored before: two names of DomainA with a first_seen and no log
\* date, an empty one or the date 2, and a row of DomainB
SaveRows ==
    [domain : {DomainA},
     subdomain : {<<"w", ".", "a", ".", "c">>, <<"x", ".", "a", ".", "c">>},
     first_seen : 0..1, last_seen : {1}, release_date : {NULL, 0, 2}]
    \cup [domain : {DomainB}, subdomain : {<<"x", ".", "a", ".", "c">>},
          first_seen : {0}, last_seen : {1}, release_date : {2}]

SaveTables ==
    {SetToBag(rs) : rs \in {q \in SUBSET SaveRows :
        \A r1, r2 \in q :
            (r1.domain = r2.domain /\ r1.subdomain = r2.subdomain) => r1 = r2}}

\* a fetch dates each name to save '' or 1
SaveCalls ==
    UNION {[table : SaveTables, domain : {DomainA}, new_subdomains : {S},
            crtsh_subdomains : [S -> 0..1], now : {SaveTime}] :
           S \in SUBSET AlertNames}

SaveInit ==
    /\ arg \in SaveCalls
    /\ ret = <<>>
    /\ AtRest

\* self.save_new_subdomains(domain, new_subdomains, crtsh_subdomains)
SaveCall ==
    /\ ret = <<>>
    /\ ret' = <<save_new_subdomains(arg.table, arg.domain, arg.new_subdomains,
                                    arg.crtsh_subdomains, arg.now)>>
    /\ UNCHANGED <<restVars, arg>>

SaveSpec == SaveInit /\ [][SaveCall]_vars

\* the row of the table after that stands for row r of the table before:
\* same pair, same first_seen, same release_date
KeptIn(after, r) ==
    {q \in Rows(after) :
        /\ q.domain = r.domain /\ q.subdomain = r.subdomain
        /\ q.first_seen = r.first_seen /\ q.release_date = r.release_date}

\* C26: a save leaves every row that existed with its first_seen and its
\* release_date, whatever date the fetch gives for its name; it changes at
\* most last_seen.
C26_FirstWriteWins ==
    ret # <<>> =>
        /\ ret[1].raised = NoError
        /\ \A r \in Rows(arg.table) :
              /\ KeptIn(ret[1].table, r) # {}
              /\ \A q \in Rows(ret[1].table) :
                    (q.domain = r.domain /\ q.subdomain = r.subdomain)
                        => q \in KeptIn(ret[1].table, r)

\* a save of a name the table held with log date 2 while the fetch dates
\* it 1: the INSERT collided and the UPDATE set last_seen
C26_Witness ==
    /\ ret # <<>>
    /\ \E r \in Rows(arg.table) :
          /\ r.domain = arg.domain
          /\ r.subdomain \in arg.new_subdomains
          /\ r.release_date = 2
          /\ arg.crtsh_subdomains[r.subdomain] = 1
          /\ [r EXCEPT !.last_seen = SaveTime] \in Rows(ret[1].table)

\* C26, over the cycles: no step of the program changes first_seen or
\* release_date of a stored row.
C26_CyclesKeepFirstWrite ==
    [][\A r \in Rows(table) : KeptIn(table', r) # {}]_vars

\* the rows of the domains other than d, with their copies
OtherRows(stored, d) ==
    {<<r, CopiesIn(r, stored)>> : r \in {q \in Rows(stored) : q.domain # d}}

\* C27: whenever the table changes, it is the save of one worker and the
\* rows of every domain but that worker's are the same afterwards; and
\* what a worker reads as known is the hostnames of the rows of its own
\* domain.
C27_OwnRowsOnly ==
    [][/\ table' # table =>
            \E i \in Workers :
                /\ threads[i].pc = "save"
                /\ threads'[i].pc = "telegram"
                /\ OtherRows(table', threads[i].domain)
                      = OtherRows(table, threads[i].domain)
       /\ \A i \in Workers :
            (threads[i].pc = "known" /\ i \in DOMAIN threads'
                /\ threads'[i].pc \in {"save", "return"}) =>
                threads'[i].known_subdomains
                    = {r.subdomain : r \in {q \in Rows(table) :
                                             q.domain = threads[i].domain}}]_vars

\* the worker of DomainB has saved its new hostname while the worker of
\* DomainA of the same tick is about to save, and the row stored earlier
\* for DomainA is as it was
C27_Witness ==
    \E i, j \in Workers :
        /\ threads[i].domain = DomainB
        /\ threads[i].wrote
        /\ threads[j].domain = DomainA
        /\ threads[j].pc = "save"
        /\ EarlierRow \in Rows(table)
        /\ \E r \in Rows(table) : r.domain = DomainB

\* the steps of monitor_domain in the order of its statements
StepOrder ==
    <<"fetch", "known", "save", "telegram", "discord", "return", "done">>

StepRank(pc) == CHOOSE k \in DOMAIN StepOrder : StepOrder[k] = pc

\* C28: a cycle moves forward through fetch, diff, persist, notify; while
\* it has not persisted it has sent nothing, what it notifies is stored
\* for its domain before the first message goes out, and a cycle that an
\* error ends at the store sends nothing in that step or later.
C28_PersistBeforeNotify ==
    /\ [](\A i \in Workers :
            /\ threads[i].pc \in {"fetch", "known", "save", "done"}
                  => threads[i].sent = <<>>
            /\ threads[i].pc \in {"save", "telegram", "discord"}
                  => threads[i].new_subdomains
                        = (DOMAIN threads[i].crtsh_subdomains)
                              \ threads[i].known_subdomains
            /\ threads[i].pc \in {"telegram", "discord"}
                  => threads[i].new_subdomains
                        \subseteq StoredFor(threads[i].domain)
            /\ SentNames(i) \subseteq StoredFor(threads[i].domain))
    /\ [][/\ \A i \in Workers :
                i \in DOMAIN threads' /\ threads'[i].tick = threads[i].tick
                    => StepRank(threads'[i].pc) >= StepRank(threads[i].pc)
          /\ announced' # announced =>
                \E i \in Workers :
                    /\ threads[i].pc \in {"telegram", "discord"}
                    /\ threads'[i].sent # threads[i].sent
          /\ \A i \in Workers :
                (threads[i].pc \in {"known", "save"} /\ i \in DOMAIN threads'
                    /\ threads'[i].pc = "done")
                    => announced' = announced]_vars

\* one cycle has notified what it persisted, another was ended by an
\* error of the store and sent nothing
C28_Witness ==
    \E i, j \in Workers :
        /\ threads[i].pc = "return"
        /\ threads[i].wrote
        /\ threads[i].sent # <<>>
        /\ threads[j].pc = "done"
        /\ threads[j].logged = "OperationalError"
        /\ \A a \in announced : a[2] # threads[j].domain

\* C29: an initialization that finds no table raises nothing and leaves an
\* empty table with the columns of its script, which a cycle can read by
\* domain and write a (domain, hostname) row into.
C29_FirstRunCreatesTable ==
    \A k \in 1..Len(ret) :
        ~ret[k].before.exists =>
            /\ ret[k].raised = NoError
            /\ InCurrentSchema(arg.script, ret[k].after)
            /\ ret[k].after.rows = {}
            /\ ~IsOperationalError(ret[k].after, {"domain", "subdomain"})
            /\ ~InsertRaises(ret[k].after,
                             [domain |-> DomainA, subdomain |-> Host1])

\* the same, of subdomain2.py alone
C29_Subdomain2FirstRun ==
    arg.script = "subdomain2.py" => C29_FirstRunCreatesTable

\* C30: a command leaves the stored rows as they are; a cycle takes as
\* known exactly what is stored for its domain when it reads, and sends
\* none of those names; so the hostname stored for DomainA from the start
\* is announced by no cycle, whatever /del and /add came before it.
C30_ReaddKeepsKnown ==
    /\ [](/\ \A i \in Workers :
               SentNames(i) \cap threads[i].known_subdomains = {}
          /\ EarlierRow \in Rows(table) =>
               \A a \in announced :
                   ~(a[2] = EarlierRow.domain /\ a[3] = EarlierRow.subdomain))
    /\ [][/\ ncmds' # ncmds => table' = table
          /\ \A i \in Workers :
               (threads[i].pc = "known" /\ i \in DOMAIN threads'
                   /\ threads'[i].pc \in {"save", "return"}) =>
                   threads'[i].known_subdomains = StoredFor(threads[i].domain)
          /\ \A r \in Rows(table) : r \in Rows(table')
                \/ [r EXCEPT !.last_seen = now] \in Rows(table')]_vars

\* DomainA was removed and added again (the list began as DomainA alone
\* and the second command was an accepted /add), and a cycle of DomainA
\* whose fetch reported the stored hostname and a new one has sent the
\* new one only
C30_Witness ==
    /\ ncmds = 2
    /\ reply = "added"
    /\ domains = <<DomainA>>
    /\ EarlierRow \in Rows(table)
    /\ last_cycle[DomainA] = NoCycle
    /\ \E i \in Workers :
          /\ threads[i].domain = DomainA
          /\ threads[i].pc = "return"
          /\ EarlierRow.subdomain \in threads[i].known_subdomains
          /\ EarlierRow.subdomain \in DOMAIN threads[i].crtsh_subdomains
          /\ SentNames(i) = {<<"x", ".", "a", ".", "c">>}

\* ---------------------------------------------------------------------
\* save_new_subdomains statement by statement: the connection's open
\* transaction (pending), the file (committed), the names the loop has
\* still to insert (todo).  sqlite3 opens the transaction at the first
\* INSERT and nothing reaches the file before conn.commit(); a connection
\* dropped with an open transaction is rolled back.
\* ---------------------------------------------------------------------

\* conn = sqlite3.connect(self.db_path), or the return of an empty set
TxnInit ==
    /\ arg \in SaveCalls
    /\ ret = <<[pc        |-> IF arg.new_subdomains = {} THEN "returned"
                              ELSE "loop",
                todo      |-> arg.new_subdomains,
                pending   |-> arg.table,
                committed |-> arg.table]>>
    /\ AtRest

\* an INSERT that also writes the file at once
TxnInsertAutocommit ==
    /\ ret[1].pc = "loop"
    /\ \E s \in ret[1].todo :
          LET one == SaveOne(ret[1].pending, arg.domain, s,
                             arg.crtsh_subdomains, arg.now)
          IN  ret' = <<[ret[1] EXCEPT !.todo = @ \ {s},
                                      !.pending = one.table,
                                      !.committed = one.table]>>
    /\ UNCHANGED <<restVars, arg>>

\* one pass of the for loop: INSERT, or UPDATE after IntegrityError, for
\* the next name the set yields
TxnInsert ==
    /\ ret[1].pc = "loop"
    /\ \E s \in ret[1].todo :
          LET one == SaveOne(ret[1].pending, arg.domain, s,
                             arg.crtsh_subdomains, arg.now)
          IN  ret' = <<[ret[1] EXCEPT !.todo = @ \ {s},
                                      !.pending = one.table]>>
    /\ UNCHANGED <<restVars, arg>>

\* a statement or the commit raises another error than IntegrityError:
\* the function is left, the transaction is never committed
TxnFail ==
    /\ ret[1].pc = "loop"
    /\ ret' = <<[ret[1] EXCEPT !.pc = "raised",
                              !.pending = ret[1].committed]>>
    /\ UNCHANGED <<restVars, arg>>

\* conn.commit()
TxnCommit ==
    /\ ret[1].pc = "loop"
    /\ ret[1].todo = {}
    /\ ret' = <<[ret[1] EXCEPT !.pc = "committed",
                              !.committed = ret[1].pending]>>
    /\ UNCHANGED <<restVars, arg>>

TxnNext == TxnInsert \/ TxnFail \/ TxnCommit

TxnSpec == TxnInit /\ [][TxnNext]_vars

\* the names of the call the table did not hold before
TrulyNew == arg.new_subdomains \ get_known_subdomains(arg.table, arg.domain)

\* C31: until the commit the file is as the call found it; after the
\* commit it holds what save_new_subdomains returns, with every name of
\* the call; after a failure, at whatever name, it is as it was, none of
\* the new names is known, and a diff of the same fetch against it finds
\* each of them new again.
C31_AllOrNothing ==
    LET t == ret[1] IN
    /\ t.pc \in {"loop", "raised", "returned"} => t.committed = arg.table
    /\ t.pc = "committed" =>
          /\ t.committed = save_new_subdomains(arg.table, arg.domain,
                               arg.new_subdomains, arg.crtsh_subdomains,
                               arg.now).table
          /\ arg.new_subdomains
                \subseteq get_known_subdomains(t.committed, arg.domain)
    /\ t.pc = "raised" =>
          /\ TrulyNew \cap get_known_subdomains(t.committed, arg.domain) = {}
          /\ TrulyNew \subseteq
                (DOMAIN arg.crtsh_subdomains)
                    \ get_known_subdomains(t.committed, arg.domain)

\* the save failed after some but not all of its new names were inserted
C31_Witness ==
    /\ ret[1].pc = "raised"
    /\ ret[1].todo \cap TrulyNew # {}
    /\ (TrulyNew \ ret[1].todo) # {}

\* C31, in the cycle: a cycle that an error ends at the save leaves the
\* table and the announcements as they were; a cycle that reaches its end
\* has every name of its fetch stored and, with a sink configured, has
\* sent each name it found new.
C31_FailedSaveIsRetried ==
    /\ [](\A i \in Workers :
            threads[i].pc = "return" =>
                /\ DOMAIN threads[i].crtsh_subdomains
                      \subseteq StoredFor(threads[i].domain)
                /\ (\E sink \in Sinks : Configured(sink)) =>
                      threads[i].new_subdomains \subseteq SentNames(i))
    /\ [][\A i \in Workers :
            (threads[i].pc = "save" /\ i \in DOMAIN threads'
                /\ threads'[i].pc = "done")
                => (table' = table /\ announced' = announced)]_vars

====
